---- MODULE Spec2Model ----
(***************************************************************************)
(* A model of asteroids.py: the Polygon2D transformation cache, the        *)
(* GameObject screen wrap and toroidal collision test, and the main game   *)
(* loop with its entity lifecycle.                                         *)
(*                                                                         *)
(* Vectors are pairs <<x, y>> of integers.  Rotation angles are multiples  *)
(* of 90 degrees, for which pygame's Vector2.rotate is exact on integers.  *)
(***************************************************************************)
EXTENDS Integers, Sequences, FiniteSets, TLC

VARIABLES
    \* SpecPoly
    poly,       \* one polygon-carrying entity (Polygon2D and GameObject fields)
    ret,        \* what the last accessor call returned since the last mutation
    \* SpecWrap
    wa, wb,     \* two game objects
    wlast,      \* the last operation and its result
    wmoves,     \* the number of moves made
    \* SpecWrap and SpecGame
    class_mods, \* the class-level list GameObject.screen_wrap_modifiers
    \* SpecGame: the globals of the main loop
    pc,                 \* the position in the loop body
    pause, game_over, spaceship_destroyed, shot_fired,
    points, level, lifes,
    spaceship, fired_shots, asteroids, debris_objects,
    fps_factor,         \* 60 / current_fps of this frame
    events,             \* what pygame.event.get() still holds for this frame
    \* SpecGame: history, not program state
    tick,               \* the number of frames started
    next_id,            \* the identity the next constructed object gets
    fx,                 \* identity -> how often its destruction side effect ran
    gone,               \* identity and kind of every object removed so far
    score_log           \* one record per scoring collision

polyVars == <<poly, ret>>
wrapVars == <<wa, wb, wlast, wmoves>>
flagVars == <<pause, game_over, spaceship_destroyed, shot_fired>>
scoreVars == <<points, level, lifes>>
entityVars == <<spaceship, fired_shots, asteroids, debris_objects>>
frameVars == <<fps_factor, events, tick>>
histVars == <<next_id, fx, gone, score_log>>
gameVars == <<pc, flagVars, scoreVars, entityVars, frameVars, histVars>>
vars == <<polyVars, wrapVars, class_mods, gameVars>>

----------------------------------------------------------------------------
(* pygame.math.Vector2 arithmetic *)

VAdd(a, b) == <<a[1] + b[1], a[2] + b[2]>>
VSub(a, b) == <<a[1] - b[1], a[2] - b[2]>>
VScale(k, a) == <<k * a[1], k * a[2]>>
Zero2 == <<0, 0>>
LengthSquared(a) == a[1] * a[1] + a[2] * a[2]

Min2(a, b) == IF a <= b THEN a ELSE b
Max2(a, b) == IF a >= b THEN a ELSE b

\* Vector2.rotate(angle) for angle a multiple of 90 (any sign, any size)
VRotate(v, angle) ==
    CASE angle % 360 = 0   -> v
      [] angle % 360 = 90  -> <<-v[2], v[1]>>
      [] angle % 360 = 180 -> <<-v[1], -v[2]>>
      [] angle % 360 = 270 -> <<v[2], -v[1]>>

----------------------------------------------------------------------------
(* Polygon2D: the lazily cached transformed vertices and bounding box.     *)
(* A polygon is a record; every method is an operator from the record      *)
(* before the call to the record after it.  nTv and nAabb count the        *)
(* computations of the two caches since the last mutation.                 *)

\* the list comprehension of get_transformed_vertices, from scratch
TransformVertices(vertices, rotation_angle, translation) ==
    [i \in 1..Len(vertices) |-> VAdd(VRotate(vertices[i], rotation_angle), translation)]

RECURSIVE FoldMinMax(_, _, _, _)
FoldMinMax(tv, i, min_coord, max_coord) ==
    IF i > Len(tv) THEN <<min_coord, max_coord>>
    ELSE FoldMinMax(tv, i + 1,
                    <<Min2(min_coord[1], tv[i][1]), Min2(min_coord[2], tv[i][2])>>,
                    <<Max2(max_coord[1], tv[i][1]), Max2(max_coord[2], tv[i][2])>>)

\* the min/max loop of update_aabb over a vertex list
ComputeAabb(tv) == FoldMinMax(tv, 1, tv[1], tv[1])

\* a variant that forgets the vertex cache
invalidate_transformation_keeps_vertices(p) ==
    [p EXCEPT !.aabb_valid = FALSE, !.nTv = 0, !.nAabb = 0]

invalidate_transformation(p) ==
    [p EXCEPT !.aabb_valid = FALSE, !.transformed_vertices_valid = FALSE,
              !.nTv = 0, !.nAabb = 0]

set_rotation_angle(p, angle) ==
    invalidate_transformation([p EXCEPT !.rotation_angle = angle])

set_translation(p, translation) ==
    invalidate_transformation([p EXCEPT !.translation = translation])

rotate(p, angle) ==
    invalidate_transformation([p EXCEPT !.rotation_angle = (p.rotation_angle + angle) % 360])

translate(p, offset) ==
    invalidate_transformation([p EXCEPT !.translation = VAdd(p.translation, offset)])

RECURSIVE get_transformed_vertices(_), update_aabb(_)
get_transformed_vertices(p) ==
    IF ~p.transformed_vertices_valid
    THEN update_aabb([p EXCEPT
            !.transformed_vertices =
                TransformVertices(p.vertices, p.rotation_angle, p.translation),
            !.transformed_vertices_valid = TRUE,
            !.nTv = p.nTv + 1])
    ELSE p

update_aabb(p) ==
    IF ~p.aabb_valid
    THEN LET q == get_transformed_vertices(p)
         IN  [q EXCEPT !.aabb = ComputeAabb(q.transformed_vertices),
                       !.aabb_valid = TRUE,
                       !.nAabb = q.nAabb + 1]
    ELSE p

get_aabb(p) == IF ~p.aabb_valid THEN update_aabb(p) ELSE p

----------------------------------------------------------------------------
(* GameObject and its subclasses: movement *)

\* GameObject.move
move(p, speed_factor) == translate(p, VScale(speed_factor * p.speed, p.direction))

\* Asteroid.move: the spin is added to rotation_angle directly
AsteroidMove(p, speed_factor) ==
    [move(p, speed_factor) EXCEPT !.rotation_angle = p.rotation_angle + p.spin * speed_factor]

add_to_life_time_frozen(p, time) == p

\* Debris.add_to_life_time (the colour fade is not modelled)
add_to_life_time(p, time) ==
    [p EXCEPT !.life_time = p.life_time + time,
              !.is_destroyed = p.is_destroyed \/ (p.life_time + time > p.max_life)]

\* Debris.move
DebrisMove(p, speed_factor) ==
    add_to_life_time(
        [move(p, speed_factor) EXCEPT !.rotation_angle = p.rotation_angle + p.spin * speed_factor],
        speed_factor)

----------------------------------------------------------------------------
(* Geometric predicates and the polygon collision test *)

orientation_test(p_a, p_b, p_c) ==
    (p_a[1] - p_c[1]) * (p_b[2] - p_c[2]) - (p_a[2] - p_c[2]) * (p_b[1] - p_c[1])

lines_intersect(p0, p1, p2, p3) ==
    LET r0 == <<Min2(p0[1], p1[1]), Min2(p0[2], p1[2])>>
        r1 == <<Max2(p0[1], p1[1]), Max2(p0[2], p1[2])>>
        r2 == <<Min2(p2[1], p3[1]), Min2(p2[2], p3[2])>>
        r3 == <<Max2(p2[1], p3[1]), Max2(p2[2], p3[2])>>
    IN  /\ r1[1] >= r2[1] /\ r3[1] >= r0[1] /\ r1[2] >= r2[2] /\ r3[2] >= r0[2]
        /\ orientation_test(p0, p2, p3) * orientation_test(p1, p2, p3) <= 0
        /\ orientation_test(p2, p0, p1) * orientation_test(p3, p0, p1) <= 0

\* one step of the ray crossing loop: the edge p_first - p_second toggles c.
\* v.x < (p_first.x - p_second.x) * (v.y - p_second.y) / (p_first.y - p_second.y)
\*       + p_second.x, multiplied out by the non-zero denominator
Crosses(v, p_first, p_second) ==
    /\ (p_second[2] > v[2]) # (p_first[2] > v[2])
    /\ LET num == (p_first[1] - p_second[1]) * (v[2] - p_second[2])
           den == p_first[2] - p_second[2]
           lhs == (v[1] - p_second[1]) * den
       IN  IF den > 0 THEN lhs < num ELSE lhs > num

\* the vertex before index i, the list taken as closed (Python's index -1)
Before(vs, i) == IF i = 1 THEN vs[Len(vs)] ELSE vs[i - 1]

\* point_in_poly on the transformed vertices of p
point_in_poly(v, p_vertices) ==
    Cardinality({i \in 1..Len(p_vertices) :
                    Crosses(v, Before(p_vertices, i), p_vertices[i])}) % 2 = 1

AabbOverlap(a_aabb, b_aabb) ==
    /\ a_aabb[2][1] >= b_aabb[1][1] /\ b_aabb[2][1] >= a_aabb[1][1]
    /\ a_aabb[2][2] >= b_aabb[1][2] /\ b_aabb[2][2] >= a_aabb[1][2]

CollideOneWay(a_vertices, a_aabb, b_vertices, b_aabb) ==
    /\ AabbOverlap(a_aabb, b_aabb)
    /\ \/ \E i \in 1..Len(a_vertices) : point_in_poly(a_vertices[i], b_vertices)
       \/ \E i \in 1..Len(a_vertices), j \in 1..Len(b_vertices) :
              lines_intersect(Before(a_vertices, i), a_vertices[i],
                              Before(b_vertices, j), b_vertices[j])

\* the three checks of collision_test on two vertex lists and their boxes
Collide(a_vertices, a_aabb, b_vertices, b_aabb) ==
    /\ AabbOverlap(a_aabb, b_aabb)
    /\ \/ \E i \in 1..Len(a_vertices) : point_in_poly(a_vertices[i], b_vertices)
       \/ \E i \in 1..Len(b_vertices) : point_in_poly(b_vertices[i], a_vertices)
       \/ \E i \in 1..Len(a_vertices), j \in 1..Len(b_vertices) :
              lines_intersect(Before(a_vertices, i), a_vertices[i],
                              Before(b_vertices, j), b_vertices[j])

\* collision_test(a, b): the objects after the call (their caches filled) and
\* the result
collision_test(a, b) ==
    LET a1 == get_aabb(get_transformed_vertices(a))
        b1 == get_aabb(get_transformed_vertices(b))
    IN  [a |-> a1, b |-> b1,
         collide |-> Collide(a1.transformed_vertices, a1.aabb,
                             b1.transformed_vertices, b1.aabb)]

----------------------------------------------------------------------------
(* Screen wrap *)

screen_width == 1024
screen_height == 768

check_screen_wraps(aabb, w, h) ==
    <<aabb[1][1] < 0, aabb[2][1] >= w, aabb[1][2] < 0, aabb[2][2] >= h>>

get_screen_wrap_modifiers_no_diagonal(aabb, w, h) ==
    LET wraps == check_screen_wraps(aabb, w, h)
        m0 == IF wraps[1] THEN <<w, 0>> ELSE IF wraps[2] THEN <<0 - w, 0>> ELSE Zero2
        m1 == IF wraps[3] THEN <<0, h>> ELSE IF wraps[4] THEN <<0, 0 - h>> ELSE Zero2
    IN  SelectSeq(<<m0, m1>>, LAMBDA v : v # Zero2)

\* the list of three candidate modifiers without the zero vectors, in order
get_screen_wrap_modifiers(aabb, w, h) ==
    LET wraps == check_screen_wraps(aabb, w, h)
        m0 == IF wraps[1] THEN <<w, 0>> ELSE IF wraps[2] THEN <<0 - w, 0>> ELSE Zero2
        m1 == IF wraps[3] THEN <<0, h>> ELSE IF wraps[4] THEN <<0, 0 - h>> ELSE Zero2
        m2 == IF wraps[1] /\ wraps[3] THEN <<w, h>>
              ELSE IF wraps[1] /\ wraps[4] THEN <<w, 0 - h>>
              ELSE IF wraps[2] /\ wraps[3] THEN <<0 - w, h>>
              ELSE IF wraps[2] /\ wraps[4] THEN <<0 - w, 0 - h>>
              ELSE Zero2
    IN  SelectSeq(<<m0, m1, m2>>, LAMBDA v : v # Zero2)

\* GameObject.screen_wrap: four tests in the order of the code, each on the
\* translation the one before left, then the modifiers become the instance's own
screen_wrap(p, w, h) ==
    LET p1 == IF p.translation[1] < 0 THEN translate(p, <<w, 0>>) ELSE p
        p2 == IF p1.translation[2] < 0 THEN translate(p1, <<0, h>>) ELSE p1
        p3 == IF p2.translation[1] >= w THEN translate(p2, <<0 - w, 0>>) ELSE p2
        p4 == IF p3.translation[2] >= h THEN translate(p3, <<0, 0 - h>>) ELSE p3
        p5 == get_aabb(p4)
    IN  [p5 EXCEPT !.own_mods = TRUE,
                   !.screen_wrap_modifiers = get_screen_wrap_modifiers(p5.aabb, w, h)]

----------------------------------------------------------------------------
(* The toroidal collision test *)

\* the list object.screen_wrap_modifiers refers to
ModsOf(p, cls) == IF p.own_mods THEN p.screen_wrap_modifiers ELSE cls

\* the nested loop over both modifier lists: the first pair, in iteration
\* order, with the strictly smallest squared distance; best = <<dist, a_m, b_m>>
RECURSIVE MinSearch(_, _, _, _, _, _, _)
MinSearch(la, lb, ta, tb, i, j, best) ==
    IF i > Len(la) THEN best
    ELSE IF j > Len(lb) THEN MinSearch(la, lb, ta, tb, i + 1, 1, best)
    ELSE LET dist == LengthSquared(VSub(VAdd(ta, la[i]), VAdd(tb, lb[j])))
         IN  MinSearch(la, lb, ta, tb, i, j + 1,
                       IF dist < best[1] THEN <<dist, la[i], lb[j]>> ELSE best)

\* lines 473-476: the object moved to its closest toroidal image
ApplyModifier(p, min_modifier, translation) ==
    IF min_modifier # Zero2 THEN set_translation(p, VAdd(translation, min_modifier)) ELSE p

\* a variant that leaves the object at its toroidal image
RestoreTranslationNever(p, min_modifier, translation) == p

\* lines 480-483: the original translation put back
RestoreTranslation(p, min_modifier, translation) ==
    IF min_modifier # Zero2 THEN set_translation(p, translation) ELSE p

\* collision_test_with_screen_wraps(a, b): the zero modifier is appended to the
\* two lists the objects refer to (the same list when both still read the
\* class-level one); the result holds both objects, the class-level list and
\* the boolean returned
collision_test_with_screen_wraps(a, b, cls) ==
    LET cls1 == IF a.own_mods THEN cls ELSE Append(cls, Zero2)
        cls2 == IF b.own_mods THEN cls1 ELSE Append(cls1, Zero2)
        a0 == IF a.own_mods
              THEN [a EXCEPT !.screen_wrap_modifiers = Append(a.screen_wrap_modifiers, Zero2)]
              ELSE a
        b0 == IF b.own_mods
              THEN [b EXCEPT !.screen_wrap_modifiers = Append(b.screen_wrap_modifiers, Zero2)]
              ELSE b
        a_modifier_list == ModsOf(a0, cls2)
        b_modifier_list == ModsOf(b0, cls2)
        a_translation == a0.translation
        b_translation == b0.translation
        best == MinSearch(a_modifier_list, b_modifier_list, a_translation, b_translation,
                          1, 1,
                          <<LengthSquared(VSub(a_translation, b_translation)), Zero2, Zero2>>)
        a_min_modifier == best[2]
        b_min_modifier == best[3]
        a1 == ApplyModifier(a0, a_min_modifier, a_translation)
        b1 == ApplyModifier(b0, b_min_modifier, b_translation)
        t == collision_test(a1, b1)
        a2 == RestoreTranslation(t.a, a_min_modifier, a_translation)
        b2 == RestoreTranslation(t.b, b_min_modifier, b_translation)
    IN  [a |-> a2, b |-> b2, cls |-> cls2, collide |-> t.collide]

----------------------------------------------------------------------------
\* the variables of the game loop, in the specifications that do not run it
GameUnused ==
    /\ pc = "" /\ pause = FALSE /\ game_over = FALSE
    /\ spaceship_destroyed = FALSE /\ shot_fired = FALSE
    /\ points = 0 /\ level = 0 /\ lifes = 0
    /\ spaceship = 0 /\ fired_shots = <<>> /\ asteroids = <<>> /\ debris_objects = <<>>
    /\ fps_factor = 0 /\ events = <<>> /\ tick = 0
    /\ next_id = 0 /\ fx = <<>> /\ gone = {} /\ score_log = <<>>

----------------------------------------------------------------------------
(* SpecPoly: one entity under every mutation and read, in any order *)

MaxCoord == 1        \* translations stay within -MaxCoord..MaxCoord on each axis
MaxTurns == 3        \* an un-normalised rotation_angle stays within +-90*MaxTurns
MaxLife == 2         \* the debris life time drawn at construction is at most MaxLife

Shapes == { <<<<1, 1>>, <<0, -2>>, <<-1, 1>>>> }
Directions == {<<1, 0>>, <<0, -1>>}
Angles == {0, 90, 180, 270}
Offsets == {<<1, 0>>, <<-1, 0>>, <<0, 1>>, <<0, -1>>}
Coords == (0 - MaxCoord)..MaxCoord
SetTargets == {Zero2, <<MaxCoord, 0 - MaxCoord>>}
Kinds == {"ship", "asteroid", "debris"}
Factors == {1, 2}

InRangeP(p) ==
    /\ p.translation[1] \in Coords
    /\ p.translation[2] \in Coords
    /\ p.rotation_angle \in (0 - 90 * MaxTurns)..(90 * MaxTurns)
    /\ p.life_time <= MaxLife + 2

NoRead == [kind |-> "none", val |-> <<>>]

\* the object as its constructor leaves it: class-level defaults for the caches;
\* own_mods tells whether the instance has a screen_wrap_modifiers attribute of
\* its own or still reads the class-level list
NewObject(kind, vertices, direction, speed, spin, max_life) ==
    [kind |-> kind, vertices |-> vertices, rotation_angle |-> 0, translation |-> Zero2,
     aabb_valid |-> FALSE, transformed_vertices_valid |-> FALSE,
     aabb |-> <<>>, transformed_vertices |-> <<>>, nTv |-> 0, nAabb |-> 0,
     speed |-> speed, direction |-> direction, spin |-> spin,
     life_time |-> 0, max_life |-> max_life, is_destroyed |-> FALSE,
     own_mods |-> FALSE, screen_wrap_modifiers |-> <<>>]

InitPoly ==
    /\ \E kind \in Kinds, vs \in Shapes, d \in Directions, sp \in {-90, 90} :
         poly = NewObject(kind, vs, d, 1,
                          IF kind = "ship" THEN 0 ELSE sp,
                          IF kind = "debris" THEN MaxLife ELSE 0)
    /\ ret = NoRead
    /\ wa = 0 /\ wb = 0 /\ wlast = 0 /\ wmoves = 0 /\ class_mods = <<>>
    /\ GameUnused

Mutate(q) ==
    /\ InRangeP(q) /\ poly' = q /\ ret' = NoRead
    /\ UNCHANGED <<wrapVars, class_mods, gameVars>>

PRotate == \E a \in {90, -90, 180} : Mutate(rotate(poly, a))
PTranslate == \E o \in Offsets : Mutate(translate(poly, o))
PSetRotationAngle == \E a \in Angles : Mutate(set_rotation_angle(poly, a))
PSetTranslation == \E t \in SetTargets : Mutate(set_translation(poly, t))
PMove ==
    \E f \in Factors :
        Mutate(CASE poly.kind = "asteroid" -> AsteroidMove(poly, f)
                 [] poly.kind = "debris"   -> DebrisMove(poly, f)
                 [] OTHER                  -> move(poly, f))
PReadVertices ==
    /\ poly' = get_transformed_vertices(poly)
    /\ ret' = [kind |-> "vertices", val |-> poly'.transformed_vertices]
    /\ UNCHANGED <<wrapVars, class_mods, gameVars>>
PReadAabb ==
    /\ poly' = get_aabb(poly)
    /\ ret' = [kind |-> "aabb", val |-> poly'.aabb]
    /\ UNCHANGED <<wrapVars, class_mods, gameVars>>

NextPoly ==
    \/ PRotate
    \/ PTranslate
    \/ PSetRotationAngle
    \/ PSetTranslation
    \/ PMove
    \/ PReadVertices
    \/ PReadAabb

SpecPoly == InitPoly /\ [][NextPoly]_vars

\* C1: every read of get_transformed_vertices() and get_aabb() returns what a
\* computation from scratch on the current vertices, rotation_angle and
\* translation gives, after any sequence of rotate, translate, set_*, and
\* entity moves (Asteroid.move and Debris.move included); no cache that is
\* marked valid is stale.
FreshVertices == TransformVertices(poly.vertices, poly.rotation_angle, poly.translation)
NoStaleRead ==
    /\ ret.kind = "vertices" => ret.val = FreshVertices
    /\ ret.kind = "aabb" => ret.val = ComputeAabb(FreshVertices)
    /\ poly.transformed_vertices_valid => poly.transformed_vertices = FreshVertices
    /\ poly.aabb_valid => poly.aabb = ComputeAabb(FreshVertices)

\* an asteroid that was read, then moved (spin added without invalidation of
\* its own), then read again while rotated and translated
NoStaleReadWitness ==
    /\ poly.kind \in {"asteroid", "debris"}
    /\ poly.rotation_angle % 360 # 0
    /\ poly.translation # Zero2
    /\ ret.kind = "aabb"
    /\ poly.nAabb > 0

----------------------------------------------------------------------------
(* SpecWrap: a ship and an asteroid on the field, moved (move, then         *)
(* screen_wrap, as the game loop does) and tested against each other with  *)
(* collision_test_with_screen_wraps, in any order.                         *)

MaxMoves == 3        \* moves made in one run
MaxListLen == 4      \* no test is started on a modifier list longer than this

ShipVertices == <<<<10, 5>>, <<0, -20>>, <<-10, 5>>>>
\* Asteroid(50, 4, ...) with every random perturbation drawn as 0
AsteroidVertices == <<<<0, 50>>, <<-50, 0>>, <<0, -50>>, <<50, 0>>>>
ShipSpeedCap == 15
ShipPositions == {<<512, 384>>, <<5, 760>>, <<1000, 5>>}
ShipDirections == {<<0, 1>>, <<-1, 0>>}
AsteroidPositions == {<<1020, 760>>, <<55, 55>>, <<512, 400>>}
\* 60 / current_fps at 60 and at 1 frame per second
FpsFactors == {1, 60}

InField(t) == t[1] >= 0 /\ t[1] < screen_width /\ t[2] >= 0 /\ t[2] < screen_height

InitWrap ==
    /\ \E pa \in ShipPositions, d \in ShipDirections :
         wa = set_translation(NewObject("ship", ShipVertices, d, ShipSpeedCap, 0, 0), pa)
    /\ \E pb \in AsteroidPositions :
         wb = set_translation(NewObject("asteroid", AsteroidVertices, <<1, 0>>, 1, 90, 0), pb)
    /\ class_mods = <<>>
    /\ wlast = [op |-> "init", who |-> "", collide |-> FALSE]
    /\ wmoves = 0
    /\ poly = 0 /\ ret = 0
    /\ GameUnused

\* the ship's step of the game loop: move, then screen_wrap
WMoveShip ==
    /\ wmoves < MaxMoves
    /\ \E f \in FpsFactors :
         wa' = screen_wrap(move(wa, f), screen_width, screen_height)
    /\ wlast' = [op |-> "move", who |-> "a", collide |-> FALSE]
    /\ wmoves' = wmoves + 1
    /\ UNCHANGED <<wb, class_mods, polyVars, gameVars>>

\* an asteroid's step of the game loop
WMoveAsteroid ==
    /\ wmoves < MaxMoves
    /\ \E f \in FpsFactors :
         wb' = screen_wrap(AsteroidMove(wb, f), screen_width, screen_height)
    /\ wlast' = [op |-> "move", who |-> "b", collide |-> FALSE]
    /\ wmoves' = wmoves + 1
    /\ UNCHANGED <<wa, class_mods, polyVars, gameVars>>

WTest ==
    /\ Len(ModsOf(wa, class_mods)) <= MaxListLen
    /\ Len(ModsOf(wb, class_mods)) <= MaxListLen
    /\ LET r == collision_test_with_screen_wraps(wa, wb, class_mods)
       IN  /\ wa' = r.a
           /\ wb' = r.b
           /\ class_mods' = r.cls
           /\ wlast' = [op |-> "test", who |-> "ab", collide |-> r.collide]
    /\ UNCHANGED <<wmoves, polyVars, gameVars>>

NextWrap ==
    \/ WMoveShip
    \/ WMoveAsteroid
    \/ WTest

SpecWrap == InitWrap /\ [][NextWrap]_vars

\* C7: collision_test_with_screen_wraps(a, b) leaves the translation of a and
\* of b as they were before the call, whichever wrap offsets were applied and
\* whatever the result.
TestKeepsTranslations ==
    [][WTest => (wa'.translation = wa.translation /\ wb'.translation = wb.translation)]_vars

\* a test that found a collision across the screen edge: it ran with one
\* object moved to a toroidal image (its caches were invalidated by the
\* restoring set_translation)
TestKeepsTranslationsWitness ==
    /\ wlast.op = "test"
    /\ wlast.collide
    /\ ~wa.transformed_vertices_valid \/ ~wb.transformed_vertices_valid

\* C10: after move and screen_wrap the translation lies in
\* [0, screen_width) x [0, screen_height), whatever the displacement.
WrapInRange ==
    /\ (wlast.op = "move" /\ wlast.who = "a") => InField(wa.translation)
    /\ (wlast.op = "move" /\ wlast.who = "b") => InField(wb.translation)


----------------------------------------------------------------------------
(* The main game loop, one action per block of the loop body.  Positions,  *)
(* headings and shapes are not part of these specifications: the bounding  *)
(* box an object has after its move and the result of each polygon         *)
(* collision test are inputs of the step that uses them.  Events that      *)
(* touch no simulation state (QUIT, K_f) are left out.  The actions take   *)
(* the sets their inputs are drawn from as a record, in: SpecGame runs a   *)
(* few frames with every kind of input, SpecLives runs more frames with    *)
(* the inputs that lead to the loss of all lives.                          *)

MaxTicks == 3        \* SpecGame: frames in one run
MaxEvents == 2       \* SpecGame: events handled in one frame
MaxHits == 1         \* SpecGame: collisions found in one pass over the pairs
MaxShots == 1        \* SpecGame: shots in flight when the fire key is pressed
MaxLivesTicks == 6   \* SpecLives: frames in one run
MaxShipHits == 2     \* SpecLives: asteroids the ship hits in one frame

shot_limit == 10
max_shot_range == 620
asteroid_points == 10
ShotSpeed == 6

\* bounding boxes after a move: inside the field, and across the left and
\* the top edge
InsideBox == <<<<100, 100>>, <<150, 150>>>>
CornerBox == <<<<-5, -5>>, <<45, 45>>>>
\* the box every debris particle is given
DebrisBox == <<<<100, 100>>, <<102, 102>>>>
\* random.uniform(100, 200), the same for all particles of one destruction
DebrisLives == {100}
\* int(random.uniform(-4, 5)), for the two children of a split
RadiusJitters == {<<-4, 4>>}
EventQueues == UNION {[1..n -> {"ESC", "SPACE"}] : n \in 0..MaxEvents}

\* the input sets of a run: the frames run, the event queues and the fire
\* keys of a frame, the states of K_UP, the values of fps_factor, and the
\* collisions found in each of the four passes
GameInputs ==
    [ticks |-> MaxTicks, queues |-> EventQueues, shots |-> MaxShots,
     keys |-> BOOLEAN, fps |-> FpsFactors,
     hits1 |-> MaxHits, hits2 |-> MaxHits, hits3 |-> MaxHits, hits4 |-> MaxHits]

LivesInputs ==
    [ticks |-> MaxLivesTicks, queues |-> {<<>>, <<"SPACE">>, <<"ESC">>}, shots |-> 1,
     keys |-> BOOLEAN, fps |-> {1},
     hits1 |-> 0, hits2 |-> 0, hits3 |-> MaxShipHits, hits4 |-> 0]

\* the fields every GameObject has; wrap_tick and test_tick are the frames of
\* its last screen_wrap and of its last collision test
Obj(id, kind) ==
    [id |-> id, kind |-> kind, is_destroyed |-> FALSE,
     own_mods |-> FALSE, screen_wrap_modifiers |-> <<>>,
     wrap_tick |-> 0, test_tick |-> 0]

\* moving: speed > 0; at_centre: the translation is the field centre
Spaceship(id) == Obj(id, "ship") @@ [moving |-> FALSE, at_centre |-> TRUE]

LaserShot(id, max_travel_dist, born) ==
    Obj(id, "shot") @@ [traveled_distance |-> 0, max_travel_dist |-> max_travel_dist,
                        speed |-> 0, born |-> born]

AsteroidBornDestroyed(id, radius, num_vertices) ==
    [Obj(id, "asteroid") EXCEPT !.is_destroyed = TRUE]
        @@ [radius |-> radius, num_vertices |-> num_vertices]

Asteroid(id, radius, num_vertices) ==
    Obj(id, "asteroid") @@ [radius |-> radius, num_vertices |-> num_vertices]

\* the count particles one destruction spawns, with identities id .. id+count-1;
\* they share max_life and so every field at every later step
Debris(id, count, max_life) ==
    Obj(id, "debris") @@ [count |-> count, life_time |-> 0, max_life |-> max_life]

set_destroyed_toggles(o) == [o EXCEPT !.is_destroyed = ~o.is_destroyed]

set_destroyed(o) == [o EXCEPT !.is_destroyed = TRUE]

\* GameObject.screen_wrap on an object whose bounding box after the move is box
WrapTo(o, box) ==
    [o EXCEPT !.own_mods = TRUE,
              !.screen_wrap_modifiers =
                  get_screen_wrap_modifiers(box, screen_width, screen_height),
              !.wrap_tick = tick]

Zeros(n) == [i \in 1..n |-> Zero2]

\* lines 452-457 of collision_test_with_screen_wraps on one of its arguments,
\* n times: the zero modifier appended to the list the object refers to
Tested(o, n) ==
    IF n = 0 THEN o
    ELSE [o EXCEPT !.test_tick = tick,
                   !.screen_wrap_modifiers =
                       IF o.own_mods
                       THEN o.screen_wrap_modifiers \o Zeros(n)
                       ELSE o.screen_wrap_modifiers]

\* the number of zero modifiers n tests of the objects of list os append to
\* the class-level list
RECURSIVE ClassAppends(_, _)
ClassAppends(os, n) ==
    IF os = <<>> THEN 0
    ELSE (IF Head(os).own_mods THEN 0 ELSE n) + ClassAppends(Tail(os), n)

Ids(os) == {os[i].id : i \in 1..Len(os)}
Destroyed(os) == {os[i].id : i \in {j \in 1..Len(os) : os[j].is_destroyed}}

InitGame ==
    /\ pc = "frame"
    /\ pause = FALSE /\ game_over = FALSE
    /\ spaceship_destroyed = FALSE /\ shot_fired = FALSE
    /\ points = 0 /\ level = 0 /\ lifes = 3
    /\ spaceship = Spaceship(1)
    /\ fired_shots = <<>> /\ asteroids = <<>> /\ debris_objects = <<>>
    /\ class_mods = <<>>
    /\ fps_factor = 1 /\ events = <<>> /\ tick = 0
    /\ next_id = 2 /\ fx = <<>> /\ gone = {} /\ score_log = <<>>
    /\ poly = 0 /\ ret = 0
    /\ wa = 0 /\ wb = 0 /\ wlast = 0 /\ wmoves = 0

\* lines 574-584: the frame starts. The queue of the frame holds a SPACE key
\* only while the ship is destroyed or fewer than in.shots shots are in flight
FrameStart(in) ==
    /\ pc = "frame"
    /\ tick < in.ticks
    /\ tick' = tick + 1
    /\ fps_factor' \in in.fps
    /\ events' \in in.queues
    /\ (\E i \in DOMAIN events' : events'[i] = "SPACE")
          => (spaceship_destroyed \/ Len(fired_shots) < in.shots)
    /\ pause' = IF game_over THEN FALSE ELSE pause
    /\ pc' = "events"
    /\ UNCHANGED <<game_over, spaceship_destroyed, shot_fired, scoreVars, entityVars,
                   histVars, class_mods, polyVars, wrapVars>>

FireRequestedPaused(e, p) == e = "SPACE" /\ ~spaceship_destroyed

\* line 601: the fire key, with p the value of pause
FireRequested(e, p) == e = "SPACE" /\ ~spaceship_destroyed /\ ~p

ContinueRequestedAlways(e, p) == e = "SPACE" /\ spaceship_destroyed /\ ~p

\* line 605: the continue key, with p the value of pause
ContinueRequested(e, p) == e = "SPACE" /\ spaceship_destroyed /\ ~game_over /\ ~p

\* lines 586-606: one pass of the event loop
HandleEvent ==
    /\ pc = "events"
    /\ events # <<>>
    /\ LET e == Head(events)
           pause1 == IF e = "ESC" /\ ~game_over THEN ~pause ELSE pause
       IN  /\ pause' = pause1
           /\ shot_fired' =
                IF FireRequested(e, pause1) /\ Len(fired_shots) < shot_limit
                THEN TRUE ELSE shot_fired
           /\ spaceship_destroyed' =
                IF ContinueRequested(e, pause1) THEN FALSE ELSE spaceship_destroyed
    /\ events' = Tail(events)
    /\ UNCHANGED <<pc, game_over, scoreVars, entityVars, fps_factor, tick,
                   histVars, class_mods, polyVars, wrapVars>>

\* line 609 with pause set: only the rendering is done
PausedFrame ==
    /\ pc = "events"
    /\ events = <<>>
    /\ pause
    /\ pc' = "frame"
    /\ UNCHANGED <<flagVars, scoreVars, entityVars, frameVars, histVars, class_mods,
                   polyVars, wrapVars>>

\* lines 609-617: the pressed keys. Rotation does not show in this
\* specification; add_thrust leaves a moving ship, or raises when the thrust
\* cancels the momentum of a moving ship (normalize of the zero vector)
Inputs(in) ==
    /\ pc = "events"
    /\ events = <<>>
    /\ ~pause
    /\ \E key_up \in in.keys :
         IF ~spaceship_destroyed /\ key_up
         THEN \/ /\ spaceship' = [spaceship EXCEPT !.moving = TRUE]
                 /\ pc' = "level"
              \/ /\ spaceship.moving
                 /\ spaceship' = spaceship
                 /\ pc' = "crashed"
         ELSE /\ spaceship' = spaceship
              /\ pc' = "level"
    /\ UNCHANGED <<flagVars, scoreVars, fired_shots, asteroids, debris_objects,
                   frameVars, histVars, class_mods, polyVars, wrapVars>>

\* the asteroids of a new level, appended one by one
RECURSIVE SpawnLevel(_, _, _)
SpawnLevel(as, n, id) ==
    IF n = 0 THEN as
    ELSE SpawnLevel(Append(as, Asteroid(id, 50, 11)), n - 1, id + 1)

\* lines 619-642: the next level
NextLevel ==
    /\ pc = "level"
    /\ IF asteroids = <<>>
       THEN /\ level' = Min2(9, level + 1)
            /\ asteroids' = SpawnLevel(asteroids, level', next_id)
            /\ next_id' = next_id + level'
       ELSE UNCHANGED <<level, asteroids, next_id>>
    /\ pc' = "move_ship"
    /\ UNCHANGED <<flagVars, points, lifes, spaceship, fired_shots, debris_objects,
                   frameVars, fx, gone, score_log, class_mods, polyVars, wrapVars>>

\* lines 644-647
MoveShip ==
    /\ pc = "move_ship"
    /\ IF ~spaceship_destroyed
       THEN spaceship' = WrapTo([spaceship EXCEPT
                                   !.at_centre = spaceship.at_centre /\ ~spaceship.moving],
                                InsideBox)
       ELSE spaceship' = spaceship
    /\ pc' = "move_shots"
    /\ UNCHANGED <<flagVars, scoreVars, fired_shots, asteroids, debris_objects,
                   frameVars, histVars, class_mods, polyVars, wrapVars>>

ShotMoveNoLimit(s, speed_factor) ==
    [s EXCEPT !.traveled_distance = s.traveled_distance + speed_factor * s.speed]

\* LaserShot.move
ShotMove(s, speed_factor) ==
    LET d == s.traveled_distance + speed_factor * s.speed
    IN  [s EXCEPT !.traveled_distance = d,
                  !.is_destroyed = s.is_destroyed
                                   \/ (s.max_travel_dist > 0 /\ d > s.max_travel_dist)]

\* lines 649-651
MoveShots ==
    /\ pc = "move_shots"
    /\ fired_shots' = [i \in 1..Len(fired_shots) |->
                          WrapTo(ShotMove(fired_shots[i], fps_factor), InsideBox)]
    /\ pc' = "fire"
    /\ UNCHANGED <<flagVars, scoreVars, spaceship, asteroids, debris_objects,
                   frameVars, histVars, class_mods, polyVars, wrapVars>>

FireKeepsRequest ==
    /\ pc = "fire"
    /\ IF shot_fired
       THEN /\ fired_shots' =
                 Append(fired_shots,
                        [LaserShot(next_id, max_shot_range, tick) EXCEPT !.speed = ShotSpeed])
            /\ next_id' = next_id + 1
            /\ shot_fired' = shot_fired
       ELSE UNCHANGED <<fired_shots, next_id, shot_fired>>
    /\ pc' = "move_asteroids"
    /\ UNCHANGED <<pause, game_over, spaceship_destroyed, scoreVars, spaceship, asteroids,
                   debris_objects, frameVars, fx, gone, score_log, class_mods,
                   polyVars, wrapVars>>

\* lines 653-661: the new shot; it is not moved and not wrapped in this frame
Fire ==
    /\ pc = "fire"
    /\ IF shot_fired
       THEN /\ fired_shots' =
                 Append(fired_shots,
                        [LaserShot(next_id, max_shot_range, tick) EXCEPT !.speed = ShotSpeed])
            /\ next_id' = next_id + 1
            /\ shot_fired' = FALSE
       ELSE UNCHANGED <<fired_shots, next_id, shot_fired>>
    /\ pc' = "move_asteroids"
    /\ UNCHANGED <<pause, game_over, spaceship_destroyed, scoreVars, spaceship, asteroids,
                   debris_objects, frameVars, fx, gone, score_log, class_mods,
                   polyVars, wrapVars>>

\* lines 663-665
MoveAsteroids ==
    /\ pc = "move_asteroids"
    /\ asteroids' = [i \in 1..Len(asteroids) |-> WrapTo(asteroids[i], CornerBox)]
    /\ pc' = "move_debris"
    /\ UNCHANGED <<flagVars, scoreVars, spaceship, fired_shots, debris_objects,
                   frameVars, histVars, class_mods, polyVars, wrapVars>>

\* lines 667-669
MoveDebris ==
    /\ pc = "move_debris"
    /\ debris_objects' = [i \in 1..Len(debris_objects) |->
                             WrapTo(add_to_life_time(debris_objects[i], fps_factor), DebrisBox)]
    /\ pc' = "coll1"
    /\ UNCHANGED <<flagVars, scoreVars, spaceship, fired_shots, asteroids,
                   frameVars, histVars, class_mods, polyVars, wrapVars>>

\* the subsets of S with at most k elements: the collisions found in one pass
RECURSIVE UpTo(_, _)
UpTo(S, k) ==
    IF k = 0 THEN {{}}
    ELSE LET T == UpTo(S, k - 1) IN T \cup {t \cup {x} : t \in T, x \in S}

\* lines 678-679: the points of one hit
ScoreHitTwice(pts) ==
    IF ~game_over THEN Min2(99999999, pts + 2 * asteroid_points) ELSE pts

ScoreHit(pts) ==
    IF ~game_over THEN Min2(99999999, pts + asteroid_points) ELSE pts

\* the pairs of the two nested loops, in the order the loops visit them
PairSeq(n, m) == [k \in 1..(n * m) |-> <<((k - 1) \div m) + 1, ((k - 1) % m) + 1>>]

\* points and log after the hits among the pairs k.. of ps (shots x asteroids)
RECURSIVE ScoreHits(_, _, _, _, _)
ScoreHits(ps, k, hits, pts, log) ==
    IF k > Len(ps) THEN <<pts, log>>
    ELSE IF ps[k] \in hits
         THEN LET s == fired_shots[ps[k][1]]
                  a == asteroids[ps[k][2]]
                  pts1 == ScoreHit(pts)
              IN  ScoreHits(ps, k + 1, hits, pts1,
                            Append(log, [shot |-> s.id, ast |-> a.id, tick |-> tick,
                                         fresh |-> s.born = tick, over |-> game_over,
                                         gain |-> pts1 - pts]))
         ELSE ScoreHits(ps, k + 1, hits, pts, log)

\* lines 672-684: shots against asteroids
Coll1(in) ==
    /\ pc = "coll1"
    /\ LET n == Len(fired_shots)
           m == Len(asteroids)
       IN  \E hits \in UpTo((1..n) \X (1..m), in.hits1) :
             LET r == ScoreHits(PairSeq(n, m), 1, hits, points, score_log)
             IN  /\ points' = r[1]
                 /\ score_log' = r[2]
                 /\ fired_shots' =
                      [i \in 1..n |->
                         LET t == Tested(fired_shots[i], m)
                         IN  IF \E j \in 1..m : <<i, j>> \in hits THEN set_destroyed(t) ELSE t]
                 /\ asteroids' =
                      [j \in 1..m |->
                         LET t == Tested(asteroids[j], n)
                         IN  IF \E i \in 1..n : <<i, j>> \in hits THEN set_destroyed(t) ELSE t]
                 /\ class_mods' = class_mods \o Zeros(ClassAppends(fired_shots, m)
                                                       + ClassAppends(asteroids, n))
    /\ pc' = "coll2"
    /\ UNCHANGED <<flagVars, level, lifes, spaceship, debris_objects, frameVars,
                   next_id, fx, gone, polyVars, wrapVars>>

\* lines 687-691: shots against the player
Coll2(in) ==
    /\ pc = "coll2"
    /\ IF ~spaceship_destroyed
       THEN LET n == Len(fired_shots)
            IN  \E hits \in UpTo(1..n, in.hits2) :
                  /\ fired_shots' =
                       [i \in 1..n |->
                          LET t == Tested(fired_shots[i], 1)
                          IN  IF i \in hits THEN set_destroyed(t) ELSE t]
                  /\ spaceship' = Tested(spaceship, n)
                  /\ class_mods' = class_mods \o Zeros(ClassAppends(fired_shots, 1)
                                                        + ClassAppends(<<spaceship>>, n))
       ELSE UNCHANGED <<fired_shots, spaceship, class_mods>>
    /\ pc' = "coll3"
    /\ UNCHANGED <<flagVars, scoreVars, asteroids, debris_objects, frameVars, histVars,
                   polyVars, wrapVars>>

\* lines 694-701: player against asteroids. The loop runs over all asteroids,
\* or stops at asteroid raise (> 0), a hit whose d_vec is the zero vector:
\* normalize raises after a.set_destroyed() and before spaceship.set_destroyed()
Coll3(in) ==
    /\ pc = "coll3"
    /\ IF ~spaceship_destroyed
       THEN LET m == Len(asteroids)
            IN  \E hits \in UpTo(1..m, in.hits3) : \E raise \in {0} \cup hits :
                  LET last == IF raise = 0 THEN m ELSE raise
                      done == {j \in hits : j <= last}
                  IN  /\ asteroids' =
                           [j \in 1..m |->
                              IF j > last THEN asteroids[j]
                              ELSE LET t == Tested(asteroids[j], 1)
                                   IN  IF j \in done THEN set_destroyed(t) ELSE t]
                      /\ spaceship' =
                           LET t == Tested(spaceship, last)
                           IN  IF done \ {raise} # {} THEN set_destroyed(t) ELSE t
                      /\ class_mods' =
                           class_mods \o Zeros(ClassAppends(SubSeq(asteroids, 1, last), 1)
                                               + ClassAppends(<<spaceship>>, last))
                      /\ pc' = IF raise = 0 THEN "coll4" ELSE "crashed"
       ELSE /\ UNCHANGED <<asteroids, spaceship, class_mods>>
            /\ pc' = "coll4"
    /\ UNCHANGED <<flagVars, scoreVars, fired_shots, debris_objects, frameVars, histVars,
                   polyVars, wrapVars>>

\* the pairs i < j of range(0, n-1) x range(i+1, n), in loop order
RECURSIVE PairsFrom(_, _, _)
PairsFrom(i, j, n) ==
    IF i >= n THEN <<>>
    ELSE IF j > n THEN PairsFrom(i + 1, i + 2, n)
    ELSE <<<<i, j>>>> \o PairsFrom(i, j + 1, n)

\* lines 704-718: asteroids against asteroids. The loops run over all pairs,
\* or stop at pair number raise (> 0), a hit whose d_vec1 (both = FALSE) or
\* d_vec2 (both = TRUE) is the zero vector
Coll4(in) ==
    /\ pc = "coll4"
    /\ LET m == Len(asteroids)
           ps == PairsFrom(1, 2, m)
       IN  \E hits \in UpTo(1..Len(ps), in.hits4) : \E raise \in {0} \cup hits : \E both \in BOOLEAN :
             LET last == IF raise = 0 THEN Len(ps) ELSE raise
                 Tests(x) == Cardinality({k \in 1..last : ps[k][1] = x \/ ps[k][2] = x})
                 Hit(x) == \E k \in hits :
                             /\ k <= last
                             /\ \/ ps[k][1] = x
                                \/ ps[k][2] = x /\ (k # raise \/ both)
             IN  /\ raise = 0 => ~both
                 /\ asteroids' =
                      [x \in 1..m |->
                         LET t == Tested(asteroids[x], Tests(x))
                         IN  IF Hit(x) THEN set_destroyed(t) ELSE t]
                 /\ class_mods' =
                      class_mods \o Zeros(ClassAppends(
                          [k \in 1..last |-> asteroids[ps[k][1]]], 1)
                          + ClassAppends([k \in 1..last |-> asteroids[ps[k][2]]], 1))
                 /\ pc' = IF raise = 0 THEN "destroy_asteroids" ELSE "crashed"
    /\ UNCHANGED <<flagVars, scoreVars, spaceship, fired_shots, debris_objects, frameVars,
                   histVars, polyVars, wrapVars>>

\* n new debris particles with consecutive ids from id on
NewDebris(n, id, max_life) == <<Debris(id, n, max_life)>>

\* fx counts, per entity id, the runs of its destruction side effect
Bump(f, id) == IF id \in DOMAIN f THEN [f EXCEPT ![id] = @ + 1] ELSE f @@ (id :> 1)

RECURSIVE AsteroidLoopSplitsAll(_, _, _, _, _, _, _, _)
AsteroidLoopSplitsAll(i, as, ds, id, f, j1, j2, max_life) ==
    IF i > Len(as) THEN [asteroids |-> as, debris |-> ds, next_id |-> id, fx |-> f]
    ELSE IF ~as[i].is_destroyed
         THEN AsteroidLoopSplitsAll(i + 1, as, ds, id, f, j1, j2, max_life)
         ELSE LET radius == as[i].radius
                  new_num_verts == Max2(3, as[i].num_vertices - 2)
                  a1 == Asteroid(id + radius, radius \div 2 + j1, new_num_verts)
                  a2 == Asteroid(id + radius + 1, radius \div 2 + j2, new_num_verts)
              IN  AsteroidLoopSplitsAll(i + 1, as \o <<a1, a2>>,
                                        ds \o NewDebris(radius, id, max_life),
                                        id + radius + 2, Bump(f, as[i].id),
                                        j1, j2, max_life)

RECURSIVE AsteroidLoopKeepsRadius(_, _, _, _, _, _, _, _)
AsteroidLoopKeepsRadius(i, as, ds, id, f, j1, j2, max_life) ==
    IF i > Len(as) THEN [asteroids |-> as, debris |-> ds, next_id |-> id, fx |-> f]
    ELSE IF ~as[i].is_destroyed
         THEN AsteroidLoopKeepsRadius(i + 1, as, ds, id, f, j1, j2, max_life)
         ELSE LET radius == as[i].radius
                  ds1 == ds \o NewDebris(radius, id, max_life)
                  id1 == id + radius
                  f1 == Bump(f, as[i].id)
              IN  IF radius \div 2 > 10
                  THEN LET new_num_verts == Max2(3, as[i].num_vertices - 2)
                           a1 == Asteroid(id1, radius + j1, new_num_verts)
                           a2 == Asteroid(id1 + 1, radius + j2, new_num_verts)
                       IN  AsteroidLoopKeepsRadius(i + 1, as \o <<a1, a2>>, ds1, id1 + 2, f1,
                                                   j1, j2, max_life)
                  ELSE AsteroidLoopKeepsRadius(i + 1, as, ds1, id1, f1, j1, j2, max_life)

\* lines 737-775: the loop over the asteroid list, from index i on; children
\* are appended to the list the loop is iterating
RECURSIVE AsteroidLoop(_, _, _, _, _, _, _, _)
AsteroidLoop(i, as, ds, id, f, j1, j2, max_life) ==
    IF i > Len(as) THEN [asteroids |-> as, debris |-> ds, next_id |-> id, fx |-> f]
    ELSE IF ~as[i].is_destroyed
         THEN AsteroidLoop(i + 1, as, ds, id, f, j1, j2, max_life)
         ELSE LET radius == as[i].radius
                  ds1 == ds \o NewDebris(radius, id, max_life)
                  id1 == id + radius
                  f1 == Bump(f, as[i].id)
              IN  IF radius \div 2 > 10
                  THEN LET new_num_verts == Max2(3, as[i].num_vertices - 2)
                           a1 == Asteroid(id1, radius \div 2 + j1, new_num_verts)
                           a2 == Asteroid(id1 + 1, radius \div 2 + j2, new_num_verts)
                       IN  AsteroidLoop(i + 1, as \o <<a1, a2>>, ds1, id1 + 2, f1,
                                        j1, j2, max_life)
                  ELSE AsteroidLoop(i + 1, as, ds1, id1, f1, j1, j2, max_life)

DestroyAsteroids ==
    /\ pc = "destroy_asteroids"
    /\ \E j \in RadiusJitters, max_life \in DebrisLives :
         LET r == AsteroidLoop(1, asteroids, debris_objects, next_id, fx, j[1], j[2], max_life)
         IN  /\ asteroids' = r.asteroids
             /\ debris_objects' = r.debris
             /\ next_id' = r.next_id
             /\ fx' = r.fx
    /\ pc' = "destroy_shots"
    /\ UNCHANGED <<flagVars, scoreVars, spaceship, fired_shots, frameVars, gone,
                   score_log, class_mods, polyVars, wrapVars>>

\* lines 777-790: the loop over the shots, from index i on
RECURSIVE ShotLoop(_, _, _, _, _)
ShotLoop(i, ds, id, f, max_life) ==
    IF i > Len(fired_shots) THEN [debris |-> ds, next_id |-> id, fx |-> f]
    ELSE IF ~fired_shots[i].is_destroyed
         THEN ShotLoop(i + 1, ds, id, f, max_life)
         ELSE ShotLoop(i + 1, ds \o NewDebris(5, id, max_life), id + 5,
                       Bump(f, fired_shots[i].id), max_life)

DestroyShots ==
    /\ pc = "destroy_shots"
    /\ \E max_life \in DebrisLives :
         LET r == ShotLoop(1, debris_objects, next_id, fx, max_life)
         IN  /\ debris_objects' = r.debris
             /\ next_id' = r.next_id
             /\ fx' = r.fx
    /\ pc' = "destroy_ship"
    /\ UNCHANGED <<flagVars, scoreVars, spaceship, fired_shots, asteroids, frameVars,
                   gone, score_log, class_mods, polyVars, wrapVars>>

\* lines 793-813: the player's ship is destroyed
DestroyShip ==
    /\ pc = "destroy_ship"
    /\ IF spaceship.is_destroyed
       THEN /\ \E max_life \in DebrisLives :
                 debris_objects' = debris_objects \o NewDebris(20, next_id, max_life)
            /\ fx' = Bump(fx, spaceship.id)
            /\ lifes' = lifes - 1
            /\ spaceship_destroyed' = TRUE
            /\ game_over' = IF lifes' < 1 THEN TRUE ELSE game_over
            /\ spaceship' = Spaceship(next_id + 20)
            /\ next_id' = next_id + 21
            /\ gone' = gone \cup {[id |-> spaceship.id, kind |-> "ship"]}
       ELSE UNCHANGED <<debris_objects, fx, lifes, spaceship_destroyed, game_over,
                        spaceship, next_id, gone>>
    /\ pc' = "remove"
    /\ UNCHANGED <<pause, shot_fired, points, level, fired_shots, asteroids, frameVars,
                   score_log, class_mods, polyVars, wrapVars>>

\* one list comprehension of lines 817-819
CompactNothing(os) == os

CompactKeepsAsteroids(os) ==
    SelectSeq(os, LAMBDA o : ~o.is_destroyed \/ o.kind = "asteroid")

Compact(os) == SelectSeq(os, LAMBDA o : ~o.is_destroyed)

Removed(os) == {[id |-> os[i].id, kind |-> os[i].kind] :
                  i \in {j \in 1..Len(os) : os[j].id \notin Ids(Compact(os))}}

\* lines 817-819: remove destroyed objects; the frame ends
Remove ==
    /\ pc = "remove"
    /\ asteroids' = Compact(asteroids)
    /\ fired_shots' = Compact(fired_shots)
    /\ debris_objects' = Compact(debris_objects)
    /\ gone' = gone \cup Removed(asteroids) \cup Removed(fired_shots)
                    \cup Removed(debris_objects)
    /\ pc' = "frame"
    /\ UNCHANGED <<flagVars, scoreVars, spaceship, frameVars, next_id, fx, score_log,
                   class_mods, polyVars, wrapVars>>

\* one block of the loop body, with inputs from the sets of in
Step(in) ==
    \/ FrameStart(in)
    \/ HandleEvent
    \/ PausedFrame
    \/ Inputs(in)
    \/ NextLevel
    \/ MoveShip
    \/ MoveShots
    \/ Fire
    \/ MoveAsteroids
    \/ MoveDebris
    \/ Coll1(in)
    \/ Coll2(in)
    \/ Coll3(in)
    \/ Coll4(in)
    \/ DestroyAsteroids
    \/ DestroyShots
    \/ DestroyShip
    \/ Remove

NextGame == Step(GameInputs)
SpecGame == InitGame /\ [][NextGame]_vars

NextLives == Step(LivesInputs)
SpecLives == InitGame /\ [][NextLives]_vars

----------------------------------------------------------------------------
(* Properties of the game loop *)

\* the identities in the collections and of the current ship
Present == Ids(asteroids) \cup Ids(fired_shots) \cup Ids(debris_objects) \cup {spaceship.id}
\* those of them whose destroyed flag is set
Flagged ==
    Destroyed(asteroids) \cup Destroyed(fired_shots) \cup Destroyed(debris_objects)
        \cup (IF spaceship.is_destroyed THEN {spaceship.id} ELSE {})
GoneIds(kinds) == {g.id : g \in {h \in gone : h.kind \in kinds}}
GoneKinds == {g.kind : g \in gone}

\* C2: when a frame has ended (the state that is drawn), no collection holds
\* an entity whose destroyed flag is set and the current ship is not flagged.
NoDestroyedAtFrameEnd ==
    pc = "frame" =>
        /\ Destroyed(asteroids) = {}
        /\ Destroyed(fired_shots) = {}
        /\ Destroyed(debris_objects) = {}
        /\ ~spaceship.is_destroyed

\* a frame has ended after an asteroid, a shot, a ship and debris were removed
NoDestroyedAtFrameEndWitness ==
    /\ pc = "frame"
    /\ GoneKinds = {"asteroid", "shot", "ship", "debris"}

\* C3: a set destroyed flag is never cleared, an entity leaves the
\* collections only with its flag set, and an identity that enters a
\* collection is that of a newly constructed object, never a removed one.
Lifecycle ==
    /\ [](\A g \in gone : g.id \notin Present)
    /\ [][/\ \A id \in Flagged \cap Present' : id \in Flagged'
          /\ \A id \in Present \ Present' : id \in Flagged
          /\ \A id \in Present' \ Present : id >= next_id]_vars

\* entities were removed in an earlier frame and others are flagged now
LifecycleWitness ==
    /\ gone # {}
    /\ Destroyed(asteroids) # {}
    /\ Destroyed(fired_shots) # {}
    /\ spaceship.is_destroyed

\* C4: the destruction side effect of an asteroid, shot or ship runs once:
\* never twice for one identity, only for identities that are flagged or
\* already removed, for every flagged asteroid and shot before the frame's
\* removal step, and for every removed asteroid, shot and ship.
EffectOnce ==
    /\ \A id \in DOMAIN fx :
         /\ fx[id] = 1
         /\ id \in Flagged \cup GoneIds({"asteroid", "shot", "ship"})
    /\ pc = "remove" =>
         Destroyed(asteroids) \cup Destroyed(fired_shots) \subseteq DOMAIN fx
    /\ pc = "frame" => DOMAIN fx = GoneIds({"asteroid", "shot", "ship"})

\* the destruction blocks of a frame have run for a shot that passed its
\* travel limit, after an asteroid and a ship were destroyed by collisions
\* and removed in earlier frames
EffectOnceWitness ==
    /\ pc = "remove"
    /\ \E i \in DOMAIN fired_shots :
         /\ fired_shots[i].is_destroyed
         /\ fired_shots[i].traveled_distance > max_shot_range
    /\ GoneIds({"asteroid"}) # {}
    /\ GoneIds({"ship"}) # {}

\* C5: lifes changes only in the ship's destruction step and by -1 there;
\* game_over holds exactly when no life is left and is never cleared; while
\* game_over holds the ship object is not touched, spaceship_destroyed stays
\* set and no shot is requested or created; spaceship_destroyed is cleared
\* only by a SPACE event handled while not paused and not game over, with an
\* unflagged ship at the field centre; while spaceship_destroyed stays set
\* the ship object is not touched.
LivesAndGameOver ==
    /\ [](game_over <=> lifes < 1)
    /\ [][/\ lifes' # lifes =>
               /\ pc = "destroy_ship" /\ spaceship.is_destroyed
               /\ lifes' = lifes - 1
          /\ (pc = "destroy_ship" /\ spaceship.is_destroyed) =>
               /\ lifes' = lifes - 1
               /\ spaceship_destroyed'
          /\ game_over =>
               /\ game_over'
               /\ spaceship_destroyed'
               /\ spaceship' = spaceship
               /\ ~shot_fired'
               /\ Ids(fired_shots') \subseteq Ids(fired_shots)
          /\ (spaceship_destroyed /\ ~spaceship_destroyed') =>
               /\ pc = "events" /\ events # <<>> /\ Head(events) = "SPACE"
               /\ ~pause /\ ~game_over /\ lifes >= 1
               /\ spaceship.at_centre /\ ~spaceship.is_destroyed
          /\ (spaceship_destroyed /\ spaceship_destroyed') => spaceship' = spaceship
         ]_vars

\* the game is over and a SPACE event is about to be handled while not paused
LivesAndGameOverWitness ==
    /\ game_over
    /\ pc = "events"
    /\ events = <<"SPACE">>
    /\ ~pause

RECURSIVE SumGains(_)
SumGains(log) == IF log = <<>> THEN 0 ELSE Head(log).gain + SumGains(Tail(log))

\* C6: a shot that hits an asteroid in the frame it was created in (game not
\* over) adds asteroid_points for that hit, the score is the sum of the
\* gains of the hits, and no hit of a later frame involves that shot or that
\* asteroid.
FreshHitScoresOnce ==
    /\ points = SumGains(score_log)
    /\ \A i \in DOMAIN score_log :
         LET r == score_log[i]
         IN  (r.fresh /\ ~r.over) =>
               /\ r.gain = asteroid_points
               /\ \A j \in DOMAIN score_log :
                    score_log[j].tick > r.tick =>
                        (score_log[j].shot # r.shot /\ score_log[j].ast # r.ast)

\* a new shot hit an asteroid, and a later frame has ended
FreshHitScoresOnceWitness ==
    /\ pc = "frame"
    /\ \E i \in DOMAIN score_log : score_log[i].fresh /\ score_log[i].tick < tick

AllObjects ==
    {spaceship} \cup {fired_shots[i] : i \in DOMAIN fired_shots}
                \cup {asteroids[i] : i \in DOMAIN asteroids}
\* the wrap-offset list an object refers to
ListOf(o) == IF o.own_mods THEN o.screen_wrap_modifiers ELSE class_mods

\* C8: every object's wrap-offset list holds at most 3 vectors.
WrapListsBounded == \A o \in AllObjects : Len(ListOf(o)) <= 3

\* C9: an object that took part in a collision test of this frame had its
\* screen_wrap call earlier in this frame.
TestedAfterWrap == \A o \in AllObjects : o.test_tick = tick => o.wrap_tick = tick

----------------------------------------------------------------------------
(* SpecLevels: the next-level block of the game loop with the positions    *)
(* it computes, over any number of waves.  The frames between two runs of  *)
(* the block are one step, Play: the ship ends up at one of ShipSpots and  *)
(* the asteroids are either all destroyed and removed or not.              *)

spawn_border == 55
asteroid_spawn_positions ==
    << <<spawn_border, spawn_border>>,
       <<screen_width \div 3, spawn_border>>,
       <<(screen_width \div 3) * 2, spawn_border>>,
       <<screen_width - spawn_border, spawn_border>>,
       <<spawn_border, screen_height - spawn_border>>,
       <<screen_width \div 3, screen_height - spawn_border>>,
       <<(screen_width \div 3) * 2, screen_height - spawn_border>>,
       <<screen_width - spawn_border, screen_height - spawn_border>>,
       <<spawn_border, screen_height \div 3>>,
       <<spawn_border, (screen_height \div 3) * 2>>,
       <<screen_width - spawn_border, screen_height \div 3>>,
       <<screen_width - spawn_border, (screen_height \div 3) * 2>> >>

Reverse(s) == [i \in 1..Len(s) |-> s[Len(s) + 1 - i]]
\* results of random.shuffle(asteroid_spawn_positions)
SpawnOrders == {asteroid_spawn_positions, Reverse(asteroid_spawn_positions)}
\* translations of the ship when a wave is spawned: the field centre, a spawn
\* position, and a point next to one
ShipSpots == {<<screen_width \div 2, screen_height \div 2>>,
              <<spawn_border, spawn_border>>,
              <<screen_width - spawn_border, screen_height - spawn_border - 1>>}

\* lines 629-631: the squared distance from pos to the nearest of the ship
\* and the asteroids as
RECURSIVE MinDistTo(_, _, _)
MinDistTo(pos, d, as) ==
    IF as = <<>> THEN d
    ELSE MinDistTo(pos, Min2(d, LengthSquared(VSub(Head(as).translation, pos))), Tail(as))

min_dist_vec(pos, ship, as) ==
    MinDistTo(pos, LengthSquared(VSub(ship.translation, pos)), as)

\* lines 626-634: the loop over the spawn positions from index i on, with
\* best = <<max_dist, spawn_pos>>
RECURSIVE SpawnSearch(_, _, _, _, _)
SpawnSearch(order, i, ship, as, best) ==
    IF i > Len(order) THEN best
    ELSE LET d == min_dist_vec(order[i], ship, as)
         IN  SpawnSearch(order, i + 1, ship, as,
                         IF d > best[1] THEN <<d, order[i]>> ELSE best)

spawn_position_first(order, ship, as) == order[1]

spawn_position(order, ship, as) == SpawnSearch(order, 1, ship, as, <<0, Zero2>>)[2]

\* lines 622-642: the asteroids of the wave, appended one by one
RECURSIVE SpawnWave(_, _, _, _)
SpawnWave(order, ship, as, n) ==
    IF n = 0 THEN as
    ELSE SpawnWave(order, ship,
                   Append(as, [translation |-> spawn_position(order, ship, as),
                               radius |-> 50, num_vertices |-> 11]),
                   n - 1)

InitLevels ==
    /\ level = 0
    /\ asteroids = <<>>
    /\ spaceship = [translation |-> <<screen_width \div 2, screen_height \div 2>>]
    /\ pc = "level"
    /\ pause = FALSE /\ game_over = FALSE
    /\ spaceship_destroyed = FALSE /\ shot_fired = FALSE
    /\ points = 0 /\ lifes = 3
    /\ fired_shots = <<>> /\ debris_objects = <<>>
    /\ fps_factor = 1 /\ events = <<>> /\ tick = 0
    /\ next_id = 0 /\ fx = <<>> /\ gone = {} /\ score_log = <<>>
    /\ class_mods = <<>>
    /\ poly = 0 /\ ret = 0
    /\ wa = 0 /\ wb = 0 /\ wlast = 0 /\ wmoves = 0

\* lines 619-642: the next level
LNextLevel ==
    /\ pc = "level"
    /\ IF asteroids = <<>>
       THEN /\ level' = Min2(9, level + 1)
            /\ \E order \in SpawnOrders :
                 asteroids' = SpawnWave(order, spaceship, asteroids, level')
       ELSE UNCHANGED <<level, asteroids>>
    /\ pc' = "play"
    /\ UNCHANGED <<flagVars, points, lifes, spaceship, fired_shots, debris_objects,
                   frameVars, histVars, class_mods, polyVars, wrapVars>>

\* lines 644-819 of this frame and the frames up to the next one in which
\* the game logic runs
Play ==
    /\ pc = "play"
    /\ \E t \in ShipSpots : spaceship' = [spaceship EXCEPT !.translation = t]
    /\ \E cleared \in BOOLEAN : asteroids' = IF cleared THEN <<>> ELSE asteroids
    /\ pc' = "level"
    /\ UNCHANGED <<flagVars, scoreVars, fired_shots, debris_objects,
                   frameVars, histVars, class_mods, polyVars, wrapVars>>

NextLevels ==
    \/ LNextLevel
    \/ Play

SpecLevels == InitLevels /\ [][NextLevels]_vars

WaveSpawned == pc = "level" /\ asteroids = <<>>
Positions == {asteroid_spawn_positions[i] : i \in DOMAIN asteroid_spawn_positions}

\* C11 (as stated): whenever the block runs with no asteroids the level
\* advances by exactly 1, at every level.
LevelAdvancesByOne == [][WaveSpawned => level' = level + 1]_vars

\* C11 (amended): whenever the block runs with no asteroids the level
\* becomes min(9, level + 1) and exactly that many asteroids are spawned,
\* each at a spawn position whose squared distance to the nearest of the
\* ship and the asteroids spawned before it is the largest over all spawn
\* positions; no two asteroids of the wave share a position.
WaveRule ==
    [][WaveSpawned =>
         /\ level' = Min2(9, level + 1)
         /\ Len(asteroids') = level'
         /\ \A k \in 1..Len(asteroids') :
              LET p == asteroids'[k].translation
                  before == SubSeq(asteroids', 1, k - 1)
              IN  /\ p \in Positions
                  /\ \A q \in Positions :
                       min_dist_vec(q, spaceship, before) <= min_dist_vec(p, spaceship, before)
         /\ \A j, k \in 1..Len(asteroids') :
              j # k => asteroids'[j].translation # asteroids'[k].translation]_vars

\* a wave of 9 asteroids was spawned at level 9 while the ship sat on a spawn
\* position
WaveRuleWitness ==
    /\ pc = "play"
    /\ level = 9
    /\ Len(asteroids) = 9
    /\ spaceship.translation \in Positions

\* ---------------------------------------------------------------------
\* The fire key and the shot limit: the event loop, the paused frame and the
\* frame up to the creation of the shot are the actions of the main game
\* loop; the rest of the frame is followed only as far as it changes the
\* ship's flags, the lives and the list of shots.

MaxShotTicks == 11

\* the event queues of a frame: two fire keys, a fire key before and after a
\* pause toggle, a pause toggle alone
ShotQueues ==
    {<<"SPACE", "SPACE">>, <<"SPACE", "ESC">>, <<"ESC", "SPACE">>, <<"ESC">>}

\* the fire key is offered in every frame, also with shot_limit shots in flight
ShotsInputs ==
    [ticks |-> MaxShotTicks, queues |-> ShotQueues, shots |-> shot_limit + 1,
     keys |-> {FALSE}, fps |-> {1},
     hits1 |-> 0, hits2 |-> 0, hits3 |-> 0, hits4 |-> 0]

\* lines 663-819 of a frame in which the ship is hit by an asteroid or not
\* (lines 694-701, 793-813) and the oldest shot is lost to an asteroid or not
\* (lines 672-684); shots past their range are removed with it (line 818)
RestOfFrame ==
    /\ pc = "move_asteroids"
    /\ \E ship_hit \in (IF spaceship_destroyed THEN {FALSE} ELSE BOOLEAN) :
         IF ship_hit
         THEN /\ lifes' = lifes - 1
              /\ spaceship_destroyed' = TRUE
              /\ game_over' = IF lifes' < 1 THEN TRUE ELSE game_over
              /\ spaceship' = Spaceship(spaceship.id)
         ELSE UNCHANGED <<lifes, spaceship_destroyed, game_over, spaceship>>
    /\ \E shot_hit \in (IF fired_shots = <<>> THEN {FALSE} ELSE BOOLEAN) :
         fired_shots' = Compact(IF shot_hit
                                THEN <<set_destroyed(Head(fired_shots))>> \o Tail(fired_shots)
                                ELSE fired_shots)
    /\ pc' = "frame"
    /\ UNCHANGED <<pause, shot_fired, points, level, asteroids, debris_objects,
                   frameVars, histVars, class_mods, polyVars, wrapVars>>

NextShots ==
    \/ FrameStart(ShotsInputs)
    \/ HandleEvent
    \/ PausedFrame
    \/ Inputs(ShotsInputs)
    \/ NextLevel
    \/ MoveShip
    \/ MoveShots
    \/ Fire
    \/ RestOfFrame

SpecShots == InitGame /\ [][NextShots]_vars

\* C12: at most shot_limit shots are in flight; a request to fire is pending
\* only while the ship is alive and fewer than shot_limit shots are in
\* flight, and a shot is added to the list only while the ship is alive.
ShotLimit ==
    /\ [](Len(fired_shots) <= shot_limit)
    /\ [](shot_fired => ~spaceship_destroyed /\ Len(fired_shots) < shot_limit)
    /\ [][Len(fired_shots') > Len(fired_shots)
            => ~spaceship_destroyed /\ Len(fired_shots') = Len(fired_shots) + 1]_vars

\* shot_limit shots are in flight and one more fire key is handled, after a
\* ship was lost and replaced
ShotLimitWitness ==
    /\ pc = "events" /\ events # <<>> /\ Head(events) = "SPACE"
    /\ ~pause /\ ~spaceship_destroyed
    /\ Len(fired_shots) = shot_limit
    /\ lifes < 3

\* ---------------------------------------------------------------------
\* The range of a shot: the main game loop run for MaxRangeTicks frames at
\* fps_factor 1, with one shot in flight at a time, no pause and no collision.

MaxRangeTicks == 106

RangeInputs ==
    [ticks |-> MaxRangeTicks, queues |-> {<<>>, <<"SPACE">>}, shots |-> 1,
     keys |-> {FALSE}, fps |-> {1},
     hits1 |-> 0, hits2 |-> 0, hits3 |-> 0, hits4 |-> 0]

NextRange ==
    \/ FrameStart(RangeInputs)
    \/ HandleEvent
    \/ Inputs(RangeInputs)
    \/ NextLevel
    \/ MoveShip
    \/ MoveShots
    \/ Fire
    \/ MoveAsteroids
    \/ MoveDebris
    \/ Coll1(RangeInputs)
    \/ Coll2(RangeInputs)
    \/ Coll3(RangeInputs)
    \/ Coll4(RangeInputs)
    \/ DestroyAsteroids
    \/ DestroyShots
    \/ DestroyShip
    \/ Remove

SpecRange == InitGame /\ [][NextRange]_vars

Splitting == SelectSeq(asteroids, LAMBDA a : a.is_destroyed /\ a.radius \div 2 > 10)

\* C14: the destruction pass keeps the list and appends, per flagged asteroid
\* with radius \div 2 > 10, two asteroids with max(3, n - 2) vertices, and
\* nothing for any other asteroid; an asteroid of radius 50 with 11 vertices
\* is among those that split, into children with 9 vertices.
SplitRule ==
    [][pc = "destroy_asteroids" =>
         /\ Len(asteroids') = Len(asteroids) + 2 * Len(Splitting)
         /\ SubSeq(asteroids', 1, Len(asteroids)) = asteroids
         /\ \A k \in 1..Len(Splitting) : \A c \in {2 * k - 1, 2 * k} :
              LET child == asteroids'[Len(asteroids) + c]
              IN  /\ child.num_vertices = Max2(3, Splitting[k].num_vertices - 2)
                  /\ ~child.is_destroyed
                  /\ (Splitting[k].radius = 50 /\ Splitting[k].num_vertices = 11)
                        => child.num_vertices = 9
         /\ \A i \in DOMAIN asteroids :
              (asteroids[i].is_destroyed /\ asteroids[i].radius = 50)
                 => \E k \in 1..Len(Splitting) : Splitting[k] = asteroids[i]]_vars

\* after the pass: a flagged asteroid of radius 50 with 11 vertices and its two
\* children
SplitRuleWitness ==
    /\ pc = "destroy_shots"
    /\ \E i \in DOMAIN asteroids :
         /\ asteroids[i].is_destroyed
         /\ asteroids[i].radius = 50 /\ asteroids[i].num_vertices = 11
    /\ Cardinality({i \in DOMAIN asteroids :
                      asteroids[i].num_vertices = 9 /\ ~asteroids[i].is_destroyed}) = 2

\* ---------------------------------------------------------------------
\* The range of rotation_angle, for the entity of SpecPoly

\* C15: the rotation_angle of every entity lies in [0, 360), for the ship
\* after any rotate inputs and for asteroids and debris after any number of
\* moves with positive or negative spin.
AngleNormalised == poly.rotation_angle >= 0 /\ poly.rotation_angle < 360

\* ---------------------------------------------------------------------
\* normalize() of the zero vector, in the frames of SpecGame

\* C16: no frame is ended by the error of normalizing a zero vector, neither
\* in add_thrust when the thrust cancels the momentum nor where a destruction
\* vector is computed; every frame runs to its end.
NormalizeNeverRaises == pc # "crashed"

\* ---------------------------------------------------------------------
\* SpecCtor: the constructors, called by the game and with any arguments.
\* poly holds the last call as <<class, n, res>>: the class, the number of
\* vertices asked for and what the constructor gave, <<ok, error, vertices,
\* radius, color>>, an object or the error it raised.

MaxVerts == 4        \* vertex lists of 0..MaxVerts vertices, asteroids of 0..MaxVerts

\* no object: the constructor raised
AssertionError(msg) == <<FALSE, msg, <<>>, 0, 0>>
\* the object a constructor returns; color is 0 where no colour is set
Object(vertices, radius, color) == <<TRUE, "", vertices, radius, color>>

Polygon2DInitNoAssert(vertices) == Object(vertices, 0, 0)

\* Polygon2D.__init__
Polygon2DInit(vertices) ==
    IF Len(vertices) >= 3
    THEN Object(vertices, 0, 0)
    ELSE AssertionError("Not enough vertices in polygon")

\* GameObject.__init__
GameObjectInit(vertices, color) ==
    LET p == Polygon2DInit(vertices)
    IN  IF p[1] THEN Object(p[3], p[4], color) ELSE p

\* Asteroid.__init__ with every random perturbation drawn as 0; a vertex is
\* kept as <<k, current_radius>>, its angle being k times mean_angle
AsteroidInit(radius, num_vertices, color) ==
    IF num_vertices > 2
    THEN Object([i \in 1..num_vertices |-> <<i - 1, radius>>], radius, color)
    ELSE AssertionError("asteroid must have >2 vertices")

SpaceshipInit(color) == GameObjectInit(ShipVertices, color)
\* the vertices (-1.5, 0), (1.5, 0), (0, -7), in half units
LaserShotInit(color) == GameObjectInit(<<<<-3, 0>>, <<3, 0>>, <<0, -14>>>>, color)
\* Debris.__init__ sets its vertices itself
DebrisInit(color) == Object(<<<<1, 1>>, <<0, -1>>, <<-1, 1>>>>, 0, color)

VertexLists == UNION {[1..n -> {<<0, 0>>, <<1, 0>>, <<0, 1>>}] : n \in 0..MaxVerts}
\* a colour and the same colour after a random change of its channels
Colors == {1, 2}

\* line 560: the first object the program constructs
InitCtor ==
    /\ \E color \in {1} : poly = <<"Spaceship", 3, SpaceshipInit(color)>>
    /\ ret = NoRead
    /\ wa = 0 /\ wb = 0 /\ wlast = 0 /\ wmoves = 0 /\ class_mods = <<>>
    /\ GameUnused

Construct(class, n, res) ==
    /\ poly' = <<class, n, res>>
    /\ UNCHANGED <<ret, wrapVars, class_mods, gameVars>>

CPolygon == \E vs \in VertexLists : Construct("Polygon2D", Len(vs), Polygon2DInit(vs))
CAsteroid ==
    \E n \in 0..MaxVerts \cup {11}, color \in Colors :
        Construct("Asteroid", n, AsteroidInit(50, n, color))
\* lines 754-765: a child of the asteroid in poly
CSplit ==
    LET a == poly[3]
    IN  /\ poly[1] = "Asteroid" /\ a[1]
        /\ a[4] \div 2 > 10
        /\ \E j \in {-4, 4}, color \in Colors :
             LET new_num_verts == Max2(3, Len(a[3]) - 2)
             IN  Construct("Asteroid", new_num_verts,
                           AsteroidInit(a[4] \div 2 + j, new_num_verts, color))
CSpaceship == \E color \in Colors : Construct("Spaceship", 3, SpaceshipInit(color))
CLaserShot == \E color \in Colors : Construct("LaserShot", 3, LaserShotInit(color))
CDebris == \E color \in Colors : Construct("Debris", 3, DebrisInit(color))

NextCtor ==
    \/ CPolygon
    \/ CAsteroid
    \/ CSplit
    \/ CSpaceship
    \/ CLaserShot
    \/ CDebris

SpecCtor == InitCtor /\ [][NextCtor]_vars

\* C17: a constructor asked for fewer than 3 vertices raises and gives no
\* object; every object has the vertices asked for, at least 3 of them, the
\* children of a split included.
AtLeastThreeVertices ==
    LET n == poly[2]
        ok == poly[3][1]
        error == poly[3][2]
        vertices == poly[3][3]
    IN  /\ n < 3 => ~ok /\ error # "" /\ vertices = <<>>
        /\ n >= 3 => ok
        /\ ok => Len(vertices) = n /\ Len(vertices) >= 3

\* an Asteroid asked for with 2 vertices
AtLeastThreeVerticesWitness ==
    poly[1] = "Asteroid" /\ poly[2] = 2 /\ ~poly[3][1]

\* ---------------------------------------------------------------------
\* SpecDebris: the life of debris over any number of frames, paused or not.
\* The frame counter is not kept; of a frame's game logic only the debris is
\* followed: its movement, the particles a destruction adds, the removal.

MaxBatches == 2      \* destructions whose debris is in the list at one time

\* random.uniform(100, 200)
DebrisMaxLives == {100, 200}

InitDebris == InitGame

\* lines 574-584
DFrameStart ==
    /\ pc = "frame"
    /\ fps_factor' = 1
    /\ events' \in {<<>>, <<"ESC">>}
    /\ pause' = IF game_over THEN FALSE ELSE pause
    /\ pc' = "events"
    /\ UNCHANGED <<game_over, spaceship_destroyed, shot_fired, scoreVars, entityVars,
                   tick, histVars, class_mods, polyVars, wrapVars>>

\* lines 609-665 of a frame that is not paused
BeforeDebris ==
    /\ pc = "events"
    /\ events = <<>>
    /\ ~pause
    /\ pc' = "move_debris"
    /\ UNCHANGED <<flagVars, scoreVars, entityVars, frameVars, histVars, class_mods,
                   polyVars, wrapVars>>

\* the smallest identity in 1..MaxBatches that no debris in the list has
FreeId == CHOOSE i \in 1..MaxBatches :
            /\ i \notin Ids(debris_objects)
            /\ \A j \in 1..(i - 1) : j \in Ids(debris_objects)

\* lines 672-819: a shot is destroyed or not (its 5 particles, lines 777-790),
\* and the flagged debris is removed (line 819)
AfterDebris ==
    /\ pc = "coll1"
    /\ \E spawn \in (IF Len(debris_objects) < MaxBatches THEN BOOLEAN ELSE {FALSE}) :
         \E max_life \in DebrisMaxLives :
            debris_objects' =
                Compact(IF spawn THEN debris_objects \o NewDebris(5, FreeId, max_life)
                                 ELSE debris_objects)
    /\ pc' = "frame"
    /\ UNCHANGED <<flagVars, scoreVars, spaceship, fired_shots, asteroids,
                   frameVars, histVars, class_mods, polyVars, wrapVars>>

NextDebris ==
    \/ DFrameStart
    \/ HandleEvent
    \/ PausedFrame
    \/ BeforeDebris
    \/ MoveDebris
    \/ AfterDebris

\* the loop runs frame after frame
SpecDebris == InitDebris /\ [][NextDebris]_vars /\ WF_vars(NextDebris)

\* C18: if frames that are not paused keep occurring, debris that is in the
\* list is later not in it: it was flagged by add_to_life_time and removed.
DebrisExpires ==
    \A id \in 1..MaxBatches :
        []<><<MoveDebris>>_vars
            => ((id \in Ids(debris_objects)) ~> (id \notin Ids(debris_objects)))

\* debris of the longest life, flagged in the frame in which its life_time
\* passed max_life, before its removal
DebrisExpiresWitness ==
    /\ pc = "coll1"
    /\ \E i \in DOMAIN debris_objects :
         /\ debris_objects[i].is_destroyed
         /\ debris_objects[i].max_life = 200
         /\ debris_objects[i].life_time = 201

\* ---------------------------------------------------------------------
\* SpecSym: two polygons on the integer grid, the second translated and
\* rotated in any order, and collision_test called on them in both orders.

MaxShift == 2        \* the second polygon's translation stays within -MaxShift..MaxShift

\* a large triangle, a small one, and a quadrilateral that is not convex
SymShapes ==
    { <<<<0, 0>>, <<6, 0>>, <<0, 6>>>>,
      <<<<1, 1>>, <<2, 1>>, <<1, 2>>>>,
      <<<<0, 0>>, <<4, 2>>, <<0, 4>>, <<1, 2>>>> }

InitSym ==
    /\ \E va \in SymShapes, vb \in SymShapes :
         /\ wa = NewObject("asteroid", va, <<1, 0>>, 0, 0, 0)
         /\ wb = NewObject("asteroid", vb, <<1, 0>>, 0, 0, 0)
    /\ ret = NoRead
    /\ poly = 0 /\ wlast = 0 /\ wmoves = 0 /\ class_mods = <<>>
    /\ GameUnused

SymTranslate ==
    /\ \E o \in Offsets :
         /\ wb' = translate(wb, o)
         /\ wb'.translation[1] \in (0 - MaxShift)..MaxShift
         /\ wb'.translation[2] \in (0 - MaxShift)..MaxShift
    /\ ret' = NoRead
    /\ UNCHANGED <<poly, wa, wlast, wmoves, class_mods, gameVars>>

SymRotate ==
    /\ wb' = rotate(wb, 90)
    /\ ret' = NoRead
    /\ UNCHANGED <<poly, wa, wlast, wmoves, class_mods, gameVars>>

\* collision_test(a, b), then collision_test(b, a)
SymTest ==
    LET ab == collision_test(wa, wb)
        ba == collision_test(ab.b, ab.a)
    IN  /\ wa' = ba.b
        /\ wb' = ba.a
        /\ ret' = [kind |-> "collide", val |-> <<ab.collide, ba.collide>>]
        /\ UNCHANGED <<poly, wlast, wmoves, class_mods, gameVars>>

NextSym ==
    \/ SymTranslate
    \/ SymRotate
    \/ SymTest

SpecSym == InitSym /\ [][NextSym]_vars

\* C19: collision_test(a, b) and collision_test(b, a) give the same boolean.
CollisionSymmetric == ret.kind = "collide" => ret.val[1] = ret.val[2]

\* a collision found only by the second vertex loop: a vertex of b lies in a,
\* no vertex of a lies in b and no two edges intersect
CollisionSymmetricWitness ==
    /\ ret.kind = "collide" /\ ret.val[1]
    /\ \E i \in 1..Len(wb.transformed_vertices) :
           point_in_poly(wb.transformed_vertices[i], wa.transformed_vertices)
    /\ ~CollideOneWay(wa.transformed_vertices, wa.aabb, wb.transformed_vertices, wb.aabb)

\* ---------------------------------------------------------------------
\* The number of cache computations, for the entity of SpecPoly

\* C20: between two mutations the transformed vertices are computed at most
\* once and the bounding box is computed at most once, whichever accessor is
\* read first, and nothing is computed before the first read.
ComputedAtMostOnce ==
    /\ poly.nTv <= 1
    /\ poly.nAabb <= 1
    /\ (~poly.transformed_vertices_valid /\ ~poly.aabb_valid)
          => (poly.nTv = 0 /\ poly.nAabb = 0)

\* ---------------------------------------------------------------------
\* The owner of a wrap-offset list, in the frames of SpecGame

\* C21: every entity has a wrap-offset list of its own, debris and a shot in
\* the frame of their creation included: none refers to the class-level
\* list, and no collision test has appended to the class-level list, which
\* every entity without a list of its own reads.
OwnWrapLists ==
    /\ \A o \in AllObjects \cup {debris_objects[i] : i \in DOMAIN debris_objects} :
          o.own_mods
    /\ class_mods = <<>>

\* ---------------------------------------------------------------------
\* The wrap offsets screen_wrap stores, for the objects of SpecWrap

\* the offsets the bounding box of o calls for: a horizontal one, a vertical
\* one, and their sum when there are both
WrapRule(o) ==
    LET left == o.aabb[1][1] < 0
        right == o.aabb[2][1] >= screen_width
        top == o.aabb[1][2] < 0
        bottom == o.aabb[2][2] >= screen_height
        horizontal == IF left THEN <<screen_width, 0>> ELSE <<0 - screen_width, 0>>
        vertical == IF top THEN <<0, screen_height>> ELSE <<0, 0 - screen_height>>
        mods == o.screen_wrap_modifiers
    IN  /\ o.aabb_valid
        /\ mods = (IF left \/ right THEN <<horizontal>> ELSE <<>>)
                  \o (IF top \/ bottom THEN <<vertical>> ELSE <<>>)
                  \o (IF (left \/ right) /\ (top \/ bottom)
                      THEN <<VAdd(horizontal, vertical)>> ELSE <<>>)
        /\ Len(mods) <= 3
        /\ \A i \in DOMAIN mods : mods[i] # Zero2
        /\ ~(left /\ right) /\ ~(top /\ bottom)

\* C22: the list get_screen_wrap_modifiers returns holds a horizontal offset
\* iff the box has min.x < 0 (+width) or max.x >= width (-width), a vertical
\* one iff min.y < 0 (+height) or max.y >= height (-height), and their sum iff
\* it holds both; it holds no zero vector and at most 3 vectors.
ModifierRule ==
    /\ (wlast.op = "move" /\ wlast.who = "a") => WrapRule(wa)
    /\ (wlast.op = "move" /\ wlast.who = "b") => WrapRule(wb)

\* the asteroid after a move that left its box over the right and the bottom
\* edge: three offsets, the third the diagonal one
ModifierRuleWitness ==
    /\ wlast.op = "move" /\ wlast.who = "b"
    /\ wb.screen_wrap_modifiers =
         << <<0 - screen_width, 0>>, <<0, 0 - screen_height>>,
            <<0 - screen_width, 0 - screen_height>> >>

\* ---------------------------------------------------------------------
\* Destroyed entities in the collision passes of the game loop

\* the shot with identity id, in the list of the current state
ShotOf(id) == fired_shots[CHOOSE i \in DOMAIN fired_shots : fired_shots[i].id = id]

\* the asteroids flagged by the step
NewlyDestroyed ==
    {j \in DOMAIN asteroids : ~asteroids[j].is_destroyed /\ asteroids'[j].is_destroyed}

\* C23: an entity flagged destroyed has no effect in the collision passes that
\* follow in the frame: no hit that scores is a hit of a shot flagged before
\* the pass, the ship is flagged only together with an asteroid not flagged
\* before, and no asteroid is flagged by a collision with an asteroid flagged
\* before (a pass that completes never flags exactly one asteroid).
NoEffectOnceDestroyed ==
    [][/\ pc = "coll1" =>
            \A k \in (Len(score_log) + 1)..Len(score_log') :
                ~ShotOf(score_log'[k].shot).is_destroyed
       /\ (pc = "coll3" /\ ~spaceship.is_destroyed /\ spaceship'.is_destroyed)
            => NewlyDestroyed # {}
       /\ (pc = "coll4" /\ pc' # "crashed") => Cardinality(NewlyDestroyed) # 1]_vars

\* ---------------------------------------------------------------------
\* SpecScore: the game loop with two shots in flight and two hits in one pass
\* of shots against asteroids

MaxScoreTicks == 3

ScoreInputs ==
    [ticks |-> MaxScoreTicks, queues |-> {<<>>, <<"SPACE">>, <<"ESC">>}, shots |-> 2,
     keys |-> {FALSE}, fps |-> {1},
     hits1 |-> 2, hits2 |-> 0, hits3 |-> 0, hits4 |-> 0]

NextScore == Step(ScoreInputs)
SpecScore == InitGame /\ [][NextScore]_vars

\* the entries the step adds to the log of hits
NewHits == {score_log'[k] : k \in (Len(score_log) + 1)..Len(score_log')}

\* C24: in the pass of shots against asteroids the score grows by
\* asteroid_points for each asteroid the pass flags (game not over, cap not
\* reached), no two hits of the pass are hits of one shot or of one asteroid;
\* the score never decreases, never exceeds 99999999 and does not change once
\* game_over is set.
ScoreOncePerAsteroid ==
    [][/\ (pc = "coll1" /\ ~game_over /\ points' < 99999999)
            => /\ points' - points = asteroid_points * Cardinality(NewlyDestroyed)
               /\ \A h1, h2 \in NewHits :
                    (h1.shot = h2.shot \/ h1.ast = h2.ast) => h1 = h2
       /\ points' >= points
       /\ points' <= 99999999
       /\ game_over => points' = points]_vars

\* ---------------------------------------------------------------------
\* SpecSplit: the waves of asteroids and their splitting.  A run starts at
\* the level block of the first frame, or at that block of the frame after
\* the eighth wave was cleared.  The collision passes of a frame are one
\* step that flags asteroids; shots, the ship, the score and the lives are not
\* followed.

MaxSplitTicks == 4

\* int(random.uniform(-4, 5)) for the two children: the extremes, no change,
\* and the smallest first child that splits again
SplitJitters == {<<-4, 4>>, <<0, 0>>, <<-3, 4>>}

InitSplit ==
    /\ pc = "level"
    /\ level \in {0, 8}
    /\ pause = FALSE /\ game_over = FALSE
    /\ spaceship_destroyed = FALSE /\ shot_fired = FALSE
    /\ points = 0 /\ lifes = 3
    /\ spaceship = Spaceship(1)
    /\ fired_shots = <<>> /\ asteroids = <<>> /\ debris_objects = <<>>
    /\ class_mods = <<>>
    /\ fps_factor = 1 /\ events = <<>> /\ tick = 1
    /\ next_id = 2 /\ fx = <<>> /\ gone = {} /\ score_log = <<>>
    /\ poly = 0 /\ ret = 0
    /\ wa = 0 /\ wb = 0 /\ wlast = 0 /\ wmoves = 0

\* lines 644-718: the moves and the four collision passes flag no asteroid,
\* one of them, or all of them
SplitFlag ==
    /\ pc = "move_ship"
    /\ \E hit \in UpTo(DOMAIN asteroids, 1) \cup {DOMAIN asteroids} :
         asteroids' = [j \in DOMAIN asteroids |->
                          IF j \in hit THEN set_destroyed(asteroids[j]) ELSE asteroids[j]]
    /\ pc' = "destroy_asteroids"
    /\ UNCHANGED <<flagVars, scoreVars, spaceship, fired_shots, debris_objects,
                   frameVars, histVars, class_mods, polyVars, wrapVars>>

\* lines 737-775 and 817: the destruction pass and the removal of the flagged
\* asteroids; lines 572-617 of the next frame
SplitDestroy ==
    /\ pc = "destroy_asteroids"
    /\ tick < MaxSplitTicks
    /\ \E j \in SplitJitters, max_life \in DebrisLives :
         LET r == AsteroidLoop(1, asteroids, debris_objects, next_id, fx, j[1], j[2], max_life)
         IN  /\ asteroids' = Compact(r.asteroids)
             /\ debris_objects' = r.debris
             /\ next_id' = r.next_id
             /\ fx' = r.fx
             /\ gone' = gone \cup Removed(r.asteroids)
    /\ tick' = tick + 1
    /\ pc' = "level"
    /\ UNCHANGED <<flagVars, scoreVars, spaceship, fired_shots, fps_factor, events,
                   score_log, class_mods, polyVars, wrapVars>>

NextSplit ==
    \/ NextLevel
    \/ SplitFlag
    \/ SplitDestroy

SpecSplit == InitSplit /\ [][NextSplit]_vars

\* the asteroids that are not flagged
Live == {j \in DOMAIN asteroids : ~asteroids[j].is_destroyed}

\* the flagged asteroids that split, in list order
Parents ==
    SelectSeq([j \in DOMAIN asteroids |-> asteroids[j]],
              LAMBDA a : a.is_destroyed /\ a.radius \div 2 > 10)

\* the asteroids of the next state that are not in the list of this state
Children ==
    {a \in {asteroids'[j] : j \in DOMAIN asteroids'} : a.id \notin Ids(asteroids)}

\* child c (1 or 2) of the k-th parent: the children are appended in the order
\* of their parents and end the list of the next state
ChildOf(k, c) == asteroids'[Len(asteroids') - 2 * Len(Parents) + 2 * (k - 1) + c]

\* C25: an asteroid has the radius of a wave (50), of a first generation
\* (21..29) or of a second generation (7..18), and one of the second
\* generation is too small to split; the two children of a split are smaller
\* than their parent; at most 4 x level asteroids are live, and level <= 9.
SplitBounded ==
    /\ [](/\ \A j \in DOMAIN asteroids :
                LET r == asteroids[j].radius
                IN  \/ r = 50
                    \/ r \in 21..29
                    \/ r \in 7..18 /\ ~(r \div 2 > 10)
          /\ Cardinality(Live) <= 4 * level
          /\ level <= 9)
    /\ [][pc = "destroy_asteroids" =>
            /\ Cardinality(Children) = 2 * Len(Parents)
            /\ \A k \in DOMAIN Parents : \A c \in 1..2 :
                 /\ ChildOf(k, c) \in Children
                 /\ ChildOf(k, c).radius < Parents[k].radius]_vars

\* the wave of level 9 has split twice: 36 live asteroids, all of the second
\* generation
SplitBoundedWitness ==
    /\ level = 9
    /\ Cardinality(Live) = 36
    /\ \A j \in DOMAIN asteroids : asteroids[j].radius \in 7..18

\* ---------------------------------------------------------------------
\* The paused frame

\* the steps of a frame up to line 609, and the step of line 609 with pause set
BeforeGameLogic == pc = "frame" \/ (pc = "events" /\ (events # <<>> \/ pause))

\* C26: a frame that reaches line 609 with pause set changes no entity, no
\* collection and none of points, level, lifes and game_over (no step of a
\* frame before the game logic does, and a paused frame ends at line 609); a
\* SPACE key handled while pause is set changes neither shot_fired nor
\* spaceship_destroyed; pause and game_over never hold together, and an ESC
\* key handled while game_over holds does not change pause.
PausedFrameFrozen ==
    /\ [](~(pause /\ game_over))
    /\ [][/\ BeforeGameLogic => UNCHANGED <<entityVars, scoreVars, game_over>>
          /\ (pc = "events" /\ events = <<>> /\ pause) => pc' = "frame"
          /\ (pc = "events" /\ events # <<>> /\ Head(events) = "SPACE" /\ pause)
               => UNCHANGED <<shot_fired, spaceship_destroyed, pause>>
          /\ (pc = "events" /\ game_over) => pause' = pause]_vars

\* a paused frame has ended while the ship is destroyed: no SPACE key of the
\* frame has continued the game
PausedFrameWitness ==
    /\ pc = "frame" /\ pause /\ tick >= 2
    /\ spaceship_destroyed

\* ---------------------------------------------------------------------
\* The asteroid destruction pass and the children it appends, in the frames
\* of SpecGame

\* the asteroids the pass has appended
Appended == {asteroids'[j] : j \in (Len(asteroids) + 1)..Len(asteroids')}

\* C27: the destruction pass ends although it appends to the list it iterates;
\* the children it appended are not flagged when it has ended, its side effect
\* ran for flagged asteroids of the list as it was and for no child, it added
\* one batch of debris per such asteroid, and two children per such asteroid
\* with radius \div 2 > 10.
PassEndsWithoutCascade ==
    [][pc = "destroy_asteroids" =>
         /\ pc' = "destroy_shots"
         /\ \A c \in Appended : ~c.is_destroyed /\ c.id \notin DOMAIN fx'
         /\ \A id \in DOMAIN fx' :
              (id \notin DOMAIN fx \/ fx'[id] # fx[id]) => id \in Destroyed(asteroids)
         /\ Len(debris_objects') = Len(debris_objects) + Cardinality(Destroyed(asteroids))
         /\ Cardinality(Appended) = 2 * Len(Splitting)]_vars

\* after the pass: a child of this frame that is large enough to split, not
\* flagged and without side effect, next to its flagged parent
PassEndsWitness ==
    /\ pc = "destroy_shots"
    /\ \E i, j \in DOMAIN asteroids :
         /\ asteroids[i].is_destroyed /\ asteroids[i].id \in DOMAIN fx
         /\ asteroids[j].wrap_tick = 0 /\ asteroids[j].radius \div 2 > 10
         /\ ~asteroids[j].is_destroyed /\ asteroids[j].id \notin DOMAIN fx

====
